---- MODULE Spec2Model ----
(***************************************************************************)
(* State-machine model of the signsense backend's gesture pipeline:        *)
(*   backend/gesture_buffer.py   GestureBuffer (debounce + silence reset)  *)
(*   backend/asl_processor.py    ASLGestureProcessor._on_frame             *)
(*   backend/routes/calls.py     registries, _push_event, on_gesture       *)
(*                               callback, _transcript_processor,          *)
(*                               _interpret_and_emit, start_agent,         *)
(*                               stop_agent, call_events                   *)
(*                                                                         *)
(* Time is counted in ticks of 0.1 s.  The program reads time.monotonic()  *)
(* only to form differences with a stored instant, so each stored instant  *)
(* is kept as its age (ticks elapsed since it was stored, saturating just  *)
(* above the largest value it is compared with) and each asyncio timeout   *)
(* as the ticks left until it fires.                                       *)
(***************************************************************************)
EXTENDS Integers, Sequences, FiniteSets, TLC

\* ---------------------------------------------------------------- bounds
MaxInc == 2            \* start_agent calls that create tasks, per run
MaxSubs == 3           \* call_events subscriptions, per run
CastSubs == 2          \* subscriptions per run of the broadcast specification
SubQueueMax == 2       \* stands for asyncio.Queue(maxsize=100), calls.py:367
GestureQueueMax == 2   \* stands for asyncio.Queue(maxsize=200), calls.py:265
BufferMax == 2         \* stands for deque(maxlen=30), gesture_buffer.py:35
LifeSubs == 1          \* subscriptions per run of the lifecycle specification
MaxPending == 2        \* longest gestures list the accumulator builds in a run

\* ------------------------------------------------- program constants
DebounceTicks == 4     \* debounce_seconds = 0.4
SilenceTicks == 20     \* silence_timeout = 2.0
WindowTicks == 25      \* wait_for(gesture_queue.get(), timeout=2.5)
KeepaliveTicks == 150  \* wait_for(queue.get(), timeout=15.0)
Threshold == 6500      \* GESTURE_CONFIDENCE_THRESHOLD = 0.65, in 1e-4

ClockMax == SilenceTicks + 1

Calls == {"c1"}
Labels == {"A", "B"}
UNCLEAR == "[UNCLEAR]"
None == "None"
RawConfs == {3004, 6499, 6500}   \* raw_conf in units of 1e-4
IsoConfs == {6499, Threshold}    \* raw_conf of the isolation specification
Incs == 1..MaxInc                \* one agent task + one processor task each
Subs == 1..MaxSubs               \* one subscriber queue + generator each
FineSteps == {3, 22}             \* tick sizes of the timed specification
CoarseSteps == {WindowTicks}     \* tick sizes of the lifecycle specification
Outcomes == {"ok", "empty", "error"}
Threads == {1, 2}                \* threads calling add() on one buffer

VARIABLES
  active_agents,         \* call_id -> agent task (an incarnation number)
  transcript_tasks,      \* call_id -> processor task
  gesture_input_queues,  \* call_id -> input queue (named by its incarnation)
  event_queues,          \* call_id -> sequence of subscriber queues
  GOOGLE_API_KEY,        \* settings.GOOGLE_API_KEY is set
  nextInc,               \* incarnations created so far
  taskCall,              \* incarnation -> the call_id its closures captured
  agentTask,             \* incarnation -> state of its run_agent task
  buffer,                \* incarnation -> its processor's GestureBuffer
  gq,                    \* incarnation -> contents of its input queue
  proc,                  \* incarnation -> its _transcript_processor task
  nextSub,               \* subscribers created so far
  sub,                   \* subscriber -> its event_generator
  sq,                    \* subscriber -> contents of its queue
  lastObs,               \* history: the last observation the running
                         \*   processor handled, its age, and whether it came
                         \*   less than debounce_seconds after one like it
  lastPush,              \* history: the last _push_event call
  handoff,               \* history: the last _interpret_and_emit call
  lastOut,               \* history: the 404, keepalive ping, removal of an
                         \*   unlisted queue or start_agent that found
                         \*   subscribers listed (with the first of them) that
                         \*   was the last of its kind at the current instant
  shared,                \* a GestureBuffer that several threads call add() on
  adders                 \* thread -> its position in add() on that buffer

vars == <<active_agents, transcript_tasks, gesture_input_queues, event_queues,
          GOOGLE_API_KEY, nextInc, taskCall, agentTask, buffer, gq, proc,
          nextSub, sub, sq, lastObs, lastPush, handoff, lastOut, shared, adders>>

\* the variables of the program, without the history variables
state == <<active_agents, transcript_tasks, gesture_input_queues, event_queues,
           GOOGLE_API_KEY, nextInc, taskCall, agentTask, buffer, gq, proc,
           nextSub, sub, sq, shared, adders>>

\* ---------------------------------------------------------------- helpers
Min(a, b) == IF a < b THEN a ELSE b
Max(a, b) == IF a > b THEN a ELSE b
Range(s) == {s[k] : k \in 1..Len(s)}
Pop(m, k) == [x \in DOMAIN m \ {k} |-> m[x]]
Put(m, k, v) == [x \in DOMAIN m \cup {k} |-> IF x = k THEN v ELSE m[x]]
\* variant: removal cuts the list at the element
Remove_truncate(s, x) == SelectSeq(s, LAMBDA y : y < x)

\* variant: a queue that is not in the list takes the last listed one with it
Remove_or_last(s, x) ==
  IF x \in Range(s) THEN SelectSeq(s, LAMBDA y : y # x)
  ELSE SubSeq(s, 1, Len(s) - 1)

Remove(s, x) == SelectSeq(s, LAMBDA y : y # x)

\* variant: the confidence is passed on as it came
Round3_identity(raw) == raw

\* round(raw_conf, 3) on a value given in 1e-4 (no input is a tie)
Round3(raw) == ((raw + 5) \div 10) * 10

\* ---------------------------------------------------------- GestureBuffer
NewBuffer == [buf |-> <<>>, last_gesture |-> None,
              age_gesture |-> ClockMax, age_add |-> 0]

DequeAppend(d, x) ==
  IF Len(d) >= BufferMax THEN Append(Tail(d), x) ELSE Append(d, x)

BufferReset(b) ==
  [b EXCEPT !.buf = <<>>, !.last_gesture = None, !.age_gesture = ClockMax]

\* variant: no silence is ever long enough
SilenceExceeded_never(b) == b.age_add > ClockMax /\ b.buf # <<>>

SilenceExceeded(b) == b.age_add > SilenceTicks /\ b.buf # <<>>

\* variant: only a repeat at the very instant of the last acceptance is a duplicate
Debounced_same_instant(b, gesture) ==
  gesture = b.last_gesture /\ b.age_gesture < 1

Debounced(b, gesture) ==
  gesture = b.last_gesture /\ b.age_gesture < DebounceTicks

\* variant: add() without the debounce test
BufferAdd_no_debounce(b, gesture) ==
  LET boundary == SilenceExceeded(b)
      b1 == IF boundary THEN BufferReset(b) ELSE b
  IN  [buffer |-> [buf |-> DequeAppend(b1.buf, gesture),
                   last_gesture |-> gesture,
                   age_gesture |-> 0, age_add |-> 0],
       accepted |-> TRUE, boundary |-> boundary]

\* add(): the buffer afterwards, the value returned, and whether it reset
BufferAdd(b, gesture) ==
  LET boundary == SilenceExceeded(b)
      b1 == IF boundary THEN BufferReset(b) ELSE b
  IN  IF Debounced(b1, gesture)
      THEN [buffer |-> b1, accepted |-> FALSE, boundary |-> boundary]
      ELSE [buffer |-> [buf |-> DequeAppend(b1.buf, gesture),
                        last_gesture |-> gesture,
                        age_gesture |-> 0, age_add |-> 0],
            accepted |-> TRUE, boundary |-> boundary]

\* ------------------------------------------------------------ broadcaster
\* variant: a queue that never reports QueueFull
put_nowait_unbounded(q, item, maxsize) == Append(q, item)

\* variant: the item goes to the front of the queue
put_nowait_front(q, item, maxsize) ==
  IF Len(q) >= maxsize THEN q ELSE <<item>> \o q

\* variant: QueueFull is raised one item late
put_nowait_late(q, item, maxsize) ==
  IF Len(q) > maxsize THEN q ELSE Append(q, item)

put_nowait(q, item, maxsize) ==
  IF Len(q) >= maxsize THEN q ELSE Append(q, item)

Registered(c) == IF c \in DOMAIN event_queues THEN Range(event_queues[c]) ELSE {}

\* _push_event: the subscriber queues afterwards
push_event(c, ev, qs) ==
  [s \in Subs |-> IF s \in Registered(c)
                  THEN put_nowait(qs[s], ev, SubQueueMax) ELSE qs[s]]

\* history of a _push_event call: the queues it found listed, and found full
PushRecord(c) ==
  [to |-> Registered(c),
   full |-> {s \in Registered(c) : Len(sq[s]) >= SubQueueMax}]

\* the event dicts, without their "timestamp" (nothing reads it)
GestureEvent(g, conf) ==
  [type |-> "gesture", gesture |-> g, confidence |-> conf]
TranscriptEvent ==
  [type |-> "transcript", gesture |-> None, confidence |-> 0]
PingEvent ==
  [type |-> "ping", gesture |-> None, confidence |-> 0]


\* ------------------------------------------- on_gesture callback, _on_frame
NoCall == [sq |-> sq, gq |-> gq, pushes |-> <<>>]

\* variant: with the input queue full the callback gives up before publishing
callback_unheard_when_full(c, gesture, confidence, gap) ==
  IF c \notin DOMAIN event_queues
  THEN NoCall
  ELSE LET ev == GestureEvent(gesture, confidence)
           q == IF gesture # UNCLEAR /\ c \in DOMAIN gesture_input_queues
                THEN gesture_input_queues[c] ELSE 0
       IN  IF q # 0 /\ Len(gq[q]) >= GestureQueueMax
           THEN NoCall
           ELSE [sq |-> push_event(c, ev, sq),
                 gq |-> IF q # 0
                        THEN [gq EXCEPT ![q] = Append(@, [g |-> gesture, gap |-> gap])]
                        ELSE gq,
                 pushes |-> <<ev>>]

\* make_on_gesture_callback(c).callback: the queues afterwards and the events
\* it handed to _push_event.  gap is a history tag on the token: whether the
\* debouncer saw a silence boundary right before accepting it.
callback(c, gesture, confidence, gap) ==
  IF c \notin DOMAIN event_queues
  THEN NoCall
  ELSE LET ev == GestureEvent(gesture, confidence)
           q == IF gesture # UNCLEAR /\ c \in DOMAIN gesture_input_queues
                THEN gesture_input_queues[c] ELSE 0
       IN  [sq |-> push_event(c, ev, sq),
            gq |-> IF q # 0
                   THEN [gq EXCEPT ![q] = put_nowait(@, [g |-> gesture, gap |-> gap],
                                                     GestureQueueMax)]
                   ELSE gq,
            pushes |-> <<ev>>]

\* variant: a rejected duplicate is reported to the callback as well
on_frame_report_rejected(i, g, raw) ==
  LET confidence == Round3(raw)
  IN  IF raw < Threshold
      THEN [buffer |-> buffer[i], outcome |-> "unclear",
            cb |-> callback(taskCall[i], UNCLEAR, confidence, FALSE)]
      ELSE LET a == BufferAdd(buffer[i], g)
           IN  [buffer |-> a.buffer,
                outcome |-> IF a.accepted THEN "accepted" ELSE "rejected",
                cb |-> callback(taskCall[i], g, confidence, a.boundary)]

\* variant: the silence check runs before the confidence check
on_frame_reset_first(i, g, raw) ==
  LET confidence == Round3(raw)
      b0 == IF SilenceExceeded(buffer[i]) THEN BufferReset(buffer[i])
            ELSE buffer[i]
  IN  IF raw < Threshold
      THEN [buffer |-> b0, outcome |-> "unclear",
            cb |-> callback(taskCall[i], UNCLEAR, confidence, FALSE)]
      ELSE LET a == BufferAdd(buffer[i], g)
           IN  IF ~a.accepted
               THEN [buffer |-> a.buffer, outcome |-> "rejected", cb |-> NoCall]
               ELSE [buffer |-> a.buffer, outcome |-> "accepted",
                     cb |-> callback(taskCall[i], g, confidence, a.boundary)]

\* variant: a confidence equal to the threshold counts as unclear
on_frame_strict_threshold(i, g, raw) ==
  LET confidence == Round3(raw)
  IN  IF raw <= Threshold
      THEN [buffer |-> buffer[i], outcome |-> "unclear",
            cb |-> callback(taskCall[i], UNCLEAR, confidence, FALSE)]
      ELSE LET a == BufferAdd(buffer[i], g)
           IN  IF ~a.accepted
               THEN [buffer |-> a.buffer, outcome |-> "rejected", cb |-> NoCall]
               ELSE [buffer |-> a.buffer, outcome |-> "accepted",
                     cb |-> callback(taskCall[i], g, confidence, a.boundary)]

\* _on_frame from line 168 on, for a frame whose top prediction is (g, raw)
on_frame(i, g, raw) ==
  LET confidence == Round3(raw)
  IN  IF raw < Threshold
      THEN [buffer |-> buffer[i], outcome |-> "unclear",
            cb |-> callback(taskCall[i], UNCLEAR, confidence, FALSE)]
      ELSE LET a == BufferAdd(buffer[i], g)
           IN  IF ~a.accepted
               THEN [buffer |-> a.buffer, outcome |-> "rejected", cb |-> NoCall]
               ELSE [buffer |-> a.buffer, outcome |-> "accepted",
                     cb |-> callback(taskCall[i], g, confidence, a.boundary)]

\* ------------------------------------------------------------------- Init
NoObs == [outcome |-> "none", label |-> None, raw |-> 0, age |-> DebounceTicks,
          inrun |-> FALSE, silent |-> FALSE, pushes |-> 0]
NoTask == [pc |-> "none", gestures |-> <<>>, timer |-> 0, cancel |-> FALSE]
NoSub == [pc |-> "none", call |-> None, timer |-> 0]
EmptyMap == [x \in {} |-> 0]
NoOut == [what |-> "none", sub |-> 0]
NoAdd == [pc |-> "idle", gesture |-> None, ret |-> FALSE]

Init ==
  /\ active_agents = EmptyMap
  /\ transcript_tasks = EmptyMap
  /\ gesture_input_queues = EmptyMap
  /\ event_queues = EmptyMap
  /\ GOOGLE_API_KEY \in BOOLEAN
  /\ nextInc = 0
  /\ taskCall = [i \in Incs |-> None]
  /\ agentTask = [i \in Incs |-> "none"]
  /\ buffer = [i \in Incs |-> NewBuffer]
  /\ gq = [i \in Incs |-> <<>>]
  /\ proc = [i \in Incs |-> NoTask]
  /\ nextSub = 0
  /\ sub = [s \in Subs |-> NoSub]
  /\ sq = [s \in Subs |-> <<>>]
  /\ lastObs = NoObs
  /\ lastPush = [to |-> {}, full |-> {}]
  /\ handoff = [path |-> "none", live |-> FALSE]
  /\ lastOut = NoOut
  /\ shared = NewBuffer
  /\ adders = [k \in Threads |-> NoAdd]

\* ------------------------------------------------------------- lifecycle
\* variant: every start gives the call a new, empty subscriber list
start_agent_new_list(c) ==
  IF c \in DOMAIN active_agents /\ agentTask[active_agents[c]] # "done"
  THEN UNCHANGED vars                        \* "Agent is already active"
  ELSE /\ nextInc < MaxInc
       /\ LET i == nextInc + 1
          IN  /\ nextInc' = i
              /\ taskCall' = [taskCall EXCEPT ![i] = c]
              /\ event_queues' = Put(event_queues, c, <<>>)
              /\ gesture_input_queues' = Put(gesture_input_queues, c, i)
              /\ gq' = [gq EXCEPT ![i] = <<>>]
              /\ active_agents' = Put(active_agents, c, i)
              /\ agentTask' = [agentTask EXCEPT ![i] = "running"]
              /\ buffer' = [buffer EXCEPT ![i] = NewBuffer]
              /\ transcript_tasks' = Put(transcript_tasks, c, i)
              /\ proc' = [proc EXCEPT ![i] = [pc |-> "wait", gestures |-> <<>>,
                                             timer |-> WindowTicks, cancel |-> FALSE]]
       /\ lastObs' = NoObs
       /\ lastOut' = IF Registered(c) # {}
                     THEN [what |-> "kept", sub |-> event_queues[c][1]]
                     ELSE lastOut
       /\ UNCHANGED <<shared, adders>>
       /\ UNCHANGED <<GOOGLE_API_KEY, nextSub, sub, sq, lastPush, handoff>>

\* start_agent: lines 249-257 answer for a call_id whose agent task is not done;
\* otherwise lines 260-292 keep a subscriber list that exists, create the input
\* queue and the two tasks, and record them
start_agent(c) ==
  IF c \in DOMAIN active_agents /\ agentTask[active_agents[c]] # "done"
  THEN UNCHANGED vars                        \* "Agent is already active"
  ELSE /\ nextInc < MaxInc
       /\ LET i == nextInc + 1
          IN  /\ nextInc' = i
              /\ taskCall' = [taskCall EXCEPT ![i] = c]
              /\ event_queues' = IF c \in DOMAIN event_queues THEN event_queues
                                 ELSE Put(event_queues, c, <<>>)
              /\ gesture_input_queues' = Put(gesture_input_queues, c, i)
              /\ gq' = [gq EXCEPT ![i] = <<>>]
              /\ active_agents' = Put(active_agents, c, i)
              /\ agentTask' = [agentTask EXCEPT ![i] = "running"]
              /\ buffer' = [buffer EXCEPT ![i] = NewBuffer]
              /\ transcript_tasks' = Put(transcript_tasks, c, i)
              /\ proc' = [proc EXCEPT ![i] = [pc |-> "wait", gestures |-> <<>>,
                                             timer |-> WindowTicks, cancel |-> FALSE]]
       /\ lastObs' = NoObs
       /\ lastOut' = IF Registered(c) # {}
                     THEN [what |-> "kept", sub |-> event_queues[c][1]]
                     ELSE lastOut
       /\ UNCHANGED <<shared, adders>>
       /\ UNCHANGED <<GOOGLE_API_KEY, nextSub, sub, sq, lastPush, handoff>>

\* variant: the per-call queues are cleaned up before the registry is looked at
stop_agent_cleanup_first(c) ==
  IF c \notin DOMAIN active_agents
  THEN /\ lastOut' = [what |-> "not_found", sub |-> 0]
       /\ gesture_input_queues' = Pop(gesture_input_queues, c)
       /\ event_queues' = Pop(event_queues, c)
       /\ UNCHANGED <<active_agents, transcript_tasks, GOOGLE_API_KEY, nextInc,
                      taskCall, agentTask, buffer, gq, proc, nextSub, sub, sq,
                      lastObs, lastPush, handoff, shared, adders>>
  ELSE
       /\ LET a == active_agents[c]
              t == IF c \in DOMAIN transcript_tasks THEN transcript_tasks[c] ELSE 0
          IN  /\ active_agents' = Pop(active_agents, c)
              /\ agentTask' = IF agentTask[a] # "done"      \* agent_task.cancel()
                              THEN [agentTask EXCEPT ![a] = "cancelled"]
                              ELSE agentTask
              /\ transcript_tasks' = Pop(transcript_tasks, c)
              /\ proc' = IF t # 0 /\ proc[t].pc # "done"
                         THEN [proc EXCEPT ![t].cancel = TRUE]
                         ELSE proc
              /\ buffer' = [buffer EXCEPT ![a] = NewBuffer]  \* no frame reaches it again
       /\ gesture_input_queues' = Pop(gesture_input_queues, c)
       /\ event_queues' = Pop(event_queues, c)
       /\ lastObs' = NoObs
       /\ UNCHANGED <<lastOut, shared, adders>>
       /\ UNCHANGED <<GOOGLE_API_KEY, nextInc, taskCall, gq, nextSub, sub,
                      sq, lastPush, handoff>>

\* stop_agent: without an entry in active_agents it raises HTTPException 404
\* at line 307, before touching anything
stop_agent(c) ==
  IF c \notin DOMAIN active_agents
  THEN /\ lastOut' = [what |-> "not_found", sub |-> 0]
       /\ UNCHANGED <<state, lastObs, lastPush, handoff>>
  ELSE
       /\ LET a == active_agents[c]
              t == IF c \in DOMAIN transcript_tasks THEN transcript_tasks[c] ELSE 0
          IN  /\ active_agents' = Pop(active_agents, c)
              /\ agentTask' = IF agentTask[a] # "done"      \* agent_task.cancel()
                              THEN [agentTask EXCEPT ![a] = "cancelled"]
                              ELSE agentTask
              /\ transcript_tasks' = Pop(transcript_tasks, c)
              /\ proc' = IF t # 0 /\ proc[t].pc # "done"
                         THEN [proc EXCEPT ![t].cancel = TRUE]
                         ELSE proc
              /\ buffer' = [buffer EXCEPT ![a] = NewBuffer]  \* no frame reaches it again
       /\ gesture_input_queues' = Pop(gesture_input_queues, c)
       /\ event_queues' = Pop(event_queues, c)
       /\ lastObs' = NoObs
       /\ UNCHANGED <<lastOut, shared, adders>>
       /\ UNCHANGED <<GOOGLE_API_KEY, nextInc, taskCall, gq, nextSub, sub,
                      sq, lastPush, handoff>>

\* run_agent returns by itself: the call ended, an error, the hour elapsed.
\* (A cancelled run_agent leaves agent.join at its next step; nothing reads the
\* task in between, so "cancelled" stands for both.)
agent_exit(i) ==
  /\ agentTask[i] = "running"
  /\ agentTask' = [agentTask EXCEPT ![i] = "done"]
  /\ buffer' = [buffer EXCEPT ![i] = NewBuffer]   \* the processor is unreachable
  /\ lastObs' = NoObs
  /\ UNCHANGED <<lastOut, shared, adders>>
  /\ UNCHANGED <<active_agents, transcript_tasks, gesture_input_queues,
                 event_queues, GOOGLE_API_KEY, nextInc, taskCall, gq,
                 proc, nextSub, sub, sq, lastPush, handoff>>

\* ------------------------------------------------------------- ingestion
\* Tokens the accumulator of the queue registered for c would put in its next
\* Phrase; frames stop arriving when that reaches MaxPending, unless the
\* queue is full and drops the token anyway.
FrameAllowed(c) ==
  IF c \notin DOMAIN gesture_input_queues THEN TRUE
  ELSE LET q == gesture_input_queues[c]
           pending == IF proc[q].pc = "wait" THEN Len(proc[q].gestures) ELSE 0
       IN  Len(gq[q]) >= GestureQueueMax \/ Len(gq[q]) + pending < MaxPending

OnFrame(i, g, raw) ==
  /\ agentTask[i] = "running"
  /\ FrameAllowed(taskCall[i])
  /\ LET r == on_frame(i, g, raw)
     IN  /\ buffer' = [buffer EXCEPT ![i] = r.buffer]
         /\ sq' = r.cb.sq
         /\ gq' = r.cb.gq
         /\ lastObs' = [outcome |-> r.outcome,
                        label |-> IF raw < Threshold THEN UNCLEAR ELSE g,
                        raw |-> raw,
                        age |-> 0,
                        inrun |-> /\ raw >= Threshold /\ lastObs.label = g
                                  /\ lastObs.age < DebounceTicks,
                        silent |-> SilenceExceeded(buffer[i]),
                        pushes |-> Len(r.cb.pushes)]
         /\ lastPush' = IF r.cb.pushes # <<>>
                        THEN PushRecord(taskCall[i])
                        ELSE lastPush
  /\ UNCHANGED <<lastOut, shared, adders>>
  /\ UNCHANGED <<active_agents, transcript_tasks, gesture_input_queues,
                 event_queues, GOOGLE_API_KEY, nextInc, taskCall, agentTask,
                 proc, nextSub, sub, handoff>>

\* ------------------------------------------------- _transcript_processor
Waiting(c) == [pc |-> "wait", gestures |-> <<>>, timer |-> WindowTicks, cancel |-> FALSE]
Finished == [pc |-> "done", gestures |-> <<>>, timer |-> 0, cancel |-> FALSE]

\* the call _interpret_and_emit(call_id, list(gestures)) made by task i
Handoff(i, path) ==
  [path |-> path,
   live |-> /\ taskCall[i] \in DOMAIN gesture_input_queues
            /\ gesture_input_queues[taskCall[i]] = i
            /\ taskCall[i] \in DOMAIN event_queues]

\* variant: a token does not restart the window
ProcGet_no_restart(i) ==
  /\ proc[i].pc = "wait" /\ ~proc[i].cancel
  /\ gq[i] # <<>>
  /\ proc' = [proc EXCEPT ![i].gestures = Append(@, Head(gq[i]))]
  /\ gq' = [gq EXCEPT ![i] = Tail(@)]
  /\ UNCHANGED <<lastOut, shared, adders>>
  /\ UNCHANGED <<active_agents, transcript_tasks, gesture_input_queues,
                 event_queues, GOOGLE_API_KEY, nextInc, taskCall, agentTask,
                 buffer, nextSub, sub, sq, lastObs, lastPush, handoff>>

\* variant: the accumulator takes the newest item of the queue
ProcGet_lifo(i) ==
  /\ proc[i].pc = "wait" /\ ~proc[i].cancel
  /\ gq[i] # <<>>
  /\ proc' = [proc EXCEPT ![i].gestures = Append(@, gq[i][Len(gq[i])]),
                          ![i].timer = WindowTicks]
  /\ gq' = [gq EXCEPT ![i] = SubSeq(@, 1, Len(@) - 1)]
  /\ UNCHANGED <<lastOut, shared, adders>>
  /\ UNCHANGED <<active_agents, transcript_tasks, gesture_input_queues,
                 event_queues, GOOGLE_API_KEY, nextInc, taskCall, agentTask,
                 buffer, nextSub, sub, sq, lastObs, lastPush, handoff>>

\* line 172: gesture_queue.get() returns an item
ProcGet(i) ==
  /\ proc[i].pc = "wait" /\ ~proc[i].cancel
  /\ gq[i] # <<>>
  /\ proc' = [proc EXCEPT ![i].gestures = Append(@, Head(gq[i])),
                          ![i].timer = WindowTicks]
  /\ gq' = [gq EXCEPT ![i] = Tail(@)]
  /\ UNCHANGED <<lastOut, shared, adders>>
  /\ UNCHANGED <<active_agents, transcript_tasks, gesture_input_queues,
                 event_queues, GOOGLE_API_KEY, nextInc, taskCall, agentTask,
                 buffer, nextSub, sub, sq, lastObs, lastPush, handoff>>

\* lines 174-178: wait_for raises TimeoutError.  Without GOOGLE_API_KEY
\* _interpret_and_emit returns at line 119 without suspending; with it the
\* task stays suspended inside the call (line 135) until the reply.
ProcTimeout(i) ==
  /\ proc[i].pc = "wait" /\ ~proc[i].cancel
  /\ gq[i] = <<>> /\ proc[i].timer = 0
  /\ IF proc[i].gestures = <<>>
     THEN /\ proc' = [proc EXCEPT ![i].timer = WindowTicks]
          /\ UNCHANGED handoff
     ELSE /\ handoff' = Handoff(i, "timeout")
          /\ proc' = IF GOOGLE_API_KEY
                     THEN [proc EXCEPT ![i].pc = "interp", ![i].timer = 0]
                     ELSE [proc EXCEPT ![i] = Waiting(i)]
  /\ UNCHANGED <<lastOut, shared, adders>>
  /\ UNCHANGED <<active_agents, transcript_tasks, gesture_input_queues,
                 event_queues, GOOGLE_API_KEY, nextInc, taskCall, agentTask,
                 buffer, gq, nextSub, sub, sq, lastObs, lastPush>>

\* variant: the cancel handler flushes without looking at the pending list
ProcCancel_always_flush(i) ==
  /\ proc[i].cancel /\ proc[i].pc \in {"wait", "interp"}
  /\ handoff' = Handoff(i, "cancel")
  /\ proc' = IF GOOGLE_API_KEY
             THEN [proc EXCEPT ![i].pc = "flush", ![i].timer = 0,
                               ![i].cancel = FALSE]
             ELSE [proc EXCEPT ![i] = Finished]
  /\ gq' = [gq EXCEPT ![i] = <<>>]
  /\ UNCHANGED <<lastOut, shared, adders>>
  /\ UNCHANGED <<active_agents, transcript_tasks, gesture_input_queues,
                 event_queues, GOOGLE_API_KEY, nextInc, taskCall, agentTask,
                 buffer, nextSub, sub, sq, lastObs, lastPush>>

\* lines 179-182: the CancelledError requested by stop_agent is thrown into the
\* task at the await it is suspended on (line 172, or line 135 under line 177,
\* where `except Exception` does not catch it)
ProcCancel(i) ==
  /\ proc[i].cancel /\ proc[i].pc \in {"wait", "interp"}
  /\ IF proc[i].gestures = <<>>
     THEN /\ proc' = [proc EXCEPT ![i] = Finished]
          /\ UNCHANGED handoff
     ELSE /\ handoff' = Handoff(i, IF proc[i].pc = "interp" THEN "resubmit"
                                   ELSE "cancel")
          /\ proc' = IF GOOGLE_API_KEY
                     THEN [proc EXCEPT ![i].pc = "flush", ![i].timer = 0,
                                       ![i].cancel = FALSE]
                     ELSE [proc EXCEPT ![i] = Finished]
  /\ gq' = [gq EXCEPT ![i] = <<>>]     \* what the queue still held is never read
  /\ UNCHANGED <<lastOut, shared, adders>>
  /\ UNCHANGED <<active_agents, transcript_tasks, gesture_input_queues,
                 event_queues, GOOGLE_API_KEY, nextInc, taskCall, agentTask,
                 buffer, nextSub, sub, sq, lastObs, lastPush>>

\* variant: an event is emitted whatever the call produced
interpret_emit_always(i, outcome) == <<TranscriptEvent>>

\* _interpret_and_emit lines 141-158 once the external call has replied
interpret_emit(i, outcome) ==
  IF outcome = "ok" THEN <<TranscriptEvent>> ELSE <<>>

\* variant: the pending list is not emptied after the call
InterpretDone_keep(i, outcome) ==
  /\ proc[i].pc \in {"interp", "flush"} /\ ~proc[i].cancel
  /\ LET out == interpret_emit(i, outcome)
     IN  /\ sq' = IF out # <<>> THEN push_event(taskCall[i], out[1], sq) ELSE sq
         /\ lastPush' = IF out # <<>> THEN PushRecord(taskCall[i])
                        ELSE lastPush
  /\ proc' = [proc EXCEPT ![i].pc = IF proc[i].pc = "interp" THEN "wait"
                                    ELSE "done",
                          ![i].timer = 0]
  /\ UNCHANGED <<lastOut, shared, adders>>
  /\ UNCHANGED <<active_agents, transcript_tasks, gesture_input_queues,
                 event_queues, GOOGLE_API_KEY, nextInc, taskCall, agentTask,
                 buffer, gq, nextSub, sub, lastObs, handoff>>

InterpretDone(i, outcome) ==
  /\ proc[i].pc \in {"interp", "flush"} /\ ~proc[i].cancel
  /\ LET out == interpret_emit(i, outcome)
     IN  /\ sq' = IF out # <<>> THEN push_event(taskCall[i], out[1], sq) ELSE sq
         /\ lastPush' = IF out # <<>> THEN PushRecord(taskCall[i])
                        ELSE lastPush
  /\ proc' = [proc EXCEPT ![i] = IF proc[i].pc = "interp" THEN Waiting(i)
                                 ELSE Finished]
  /\ UNCHANGED <<lastOut, shared, adders>>
  /\ UNCHANGED <<active_agents, transcript_tasks, gesture_input_queues,
                 event_queues, GOOGLE_API_KEY, nextInc, taskCall, agentTask,
                 buffer, gq, nextSub, sub, lastObs, handoff>>

\* ------------------------------------------------------------ call_events
\* lines 367-371: a new queue is appended to the call's subscriber list
call_events(c) ==
  /\ nextSub < MaxSubs
  /\ LET s == nextSub + 1
     IN  /\ nextSub' = s
         /\ sub' = [sub EXCEPT ![s] = [pc |-> "run", call |-> c,
                                       timer |-> KeepaliveTicks]]
         /\ sq' = [sq EXCEPT ![s] = <<>>]
         /\ event_queues' =
              Put(event_queues, c,
                  Append(IF c \in DOMAIN event_queues THEN event_queues[c]
                         ELSE <<>>, s))
  /\ UNCHANGED <<lastOut, shared, adders>>
  /\ UNCHANGED <<active_agents, transcript_tasks, gesture_input_queues,
                 GOOGLE_API_KEY, nextInc, taskCall, agentTask, buffer, gq,
                 proc, lastObs, lastPush, handoff>>

\* lines 383-384: queue.get() returns an event, which is yielded
SubGet(s) ==
  /\ sub[s].pc = "run"
  /\ sq[s] # <<>>
  /\ sq' = [sq EXCEPT ![s] = Tail(@)]
  /\ sub' = [sub EXCEPT ![s].timer = KeepaliveTicks]
  /\ UNCHANGED <<lastOut, shared, adders>>
  /\ UNCHANGED <<active_agents, transcript_tasks, gesture_input_queues,
                 event_queues, GOOGLE_API_KEY, nextInc, taskCall, agentTask,
                 buffer, gq, proc, nextSub, lastObs, lastPush, handoff>>

\* variant: the ping goes through the subscriber's queue
SubPing_enqueue(s) ==
  /\ sub[s].pc = "run"
  /\ sq[s] = <<>> /\ sub[s].timer = 0
  /\ sub' = [sub EXCEPT ![s].timer = KeepaliveTicks]
  /\ sq' = [sq EXCEPT ![s] = put_nowait(@, PingEvent, SubQueueMax)]
  /\ lastOut' = [what |-> "ping", sub |-> s]
  /\ UNCHANGED <<shared, adders>>
  /\ UNCHANGED <<active_agents, transcript_tasks, gesture_input_queues,
                 event_queues, GOOGLE_API_KEY, nextInc, taskCall, agentTask,
                 buffer, gq, proc, nextSub, lastObs, lastPush, handoff>>

\* lines 385-387: wait_for raises TimeoutError, a ping is yielded
SubPing(s) ==
  /\ sub[s].pc = "run"
  /\ sq[s] = <<>> /\ sub[s].timer = 0
  /\ sub' = [sub EXCEPT ![s].timer = KeepaliveTicks]
  /\ lastOut' = [what |-> "ping", sub |-> s]
  /\ UNCHANGED <<shared, adders>>
  /\ UNCHANGED <<active_agents, transcript_tasks, gesture_input_queues,
                 event_queues, GOOGLE_API_KEY, nextInc, taskCall, agentTask,
                 buffer, gq, proc, nextSub, sq, lastObs, lastPush, handoff>>

\* lines 388-396: the client disconnects; the generator is cancelled or closed
\* and its finally block removes the queue from the list, if still listed
SubClose(s) ==
  /\ sub[s].pc = "run"
  /\ sub' = [sub EXCEPT ![s] = [pc |-> "done", call |-> sub[s].call, timer |-> 0]]
  /\ event_queues' =
       IF sub[s].call \in DOMAIN event_queues
       THEN [event_queues EXCEPT ![sub[s].call] = Remove(@, s)]
       ELSE event_queues
  /\ sq' = [sq EXCEPT ![s] = <<>>]
  /\ lastOut' = IF s \in Registered(sub[s].call) THEN lastOut
                ELSE [what |-> "unlisted", sub |-> s]
  /\ UNCHANGED <<shared, adders>>
  /\ UNCHANGED <<active_agents, transcript_tasks, gesture_input_queues,
                 GOOGLE_API_KEY, nextInc, taskCall, agentTask, buffer, gq,
                 proc, nextSub, lastObs, lastPush, handoff>>

\* ------------------------------------------------------------------- time
\* A processor task that is ready to run does so before the clock moves: an
\* item in its queue, an expired wait_for, a pending CancelledError.
Urgent(i) ==
  \/ proc[i].pc = "wait" /\ (proc[i].cancel \/ gq[i] # <<>> \/ proc[i].timer = 0)
  \/ proc[i].pc = "interp" /\ proc[i].cancel

Tick(d) ==
  /\ \A i \in Incs : ~Urgent(i) /\ (proc[i].pc = "wait" => d <= proc[i].timer)
  /\ proc' = [i \in Incs |-> IF proc[i].pc = "wait"
                             THEN [proc[i] EXCEPT !.timer = @ - d] ELSE proc[i]]
  /\ buffer' = [i \in Incs |->
                  IF agentTask[i] = "running"
                  THEN [buffer[i] EXCEPT !.age_gesture = Min(@ + d, ClockMax),
                                         !.age_add = Min(@ + d, ClockMax)]
                  ELSE buffer[i]]
  /\ sub' = [s \in Subs |-> IF sub[s].pc = "run"
                            THEN [sub[s] EXCEPT !.timer = Max(@ - d, 0)]
                            ELSE sub[s]]
  /\ lastObs' = IF lastObs.outcome = "none" THEN lastObs
                ELSE [lastObs EXCEPT !.age = Min(@ + d, DebounceTicks)]
  /\ lastOut' = NoOut
  /\ UNCHANGED <<shared, adders>>
  /\ UNCHANGED <<active_agents, transcript_tasks, gesture_input_queues,
                 event_queues, GOOGLE_API_KEY, nextInc, taskCall, agentTask,
                 gq, nextSub, sq, lastPush, handoff>>

\* --------------------------------------- add() called from several threads
\* Nothing in GestureBuffer holds a lock, so a thread switch can fall between
\* any two lines of add().  The calls are made at one instant: the stored
\* instants do not age while they run.

\* add() lines 61-71 in thread k: the silence check with its reset, then the
\* debounce test, which returns False or lets the call go on
AddCheck(k, gesture) ==
  /\ adders[k].pc = "idle"
  /\ LET b1 == IF SilenceExceeded(shared) THEN BufferReset(shared) ELSE shared
     IN  /\ shared' = b1
         /\ adders' = [adders EXCEPT
                         ![k] = IF Debounced(b1, gesture)
                                THEN [pc |-> "done", gesture |-> gesture,
                                      ret |-> FALSE]
                                ELSE [pc |-> "checked", gesture |-> gesture,
                                      ret |-> FALSE]]
  /\ UNCHANGED <<active_agents, transcript_tasks, gesture_input_queues,
                 event_queues, GOOGLE_API_KEY, nextInc, taskCall, agentTask,
                 buffer, gq, proc, nextSub, sub, sq, lastObs, lastPush,
                 handoff, lastOut>>

\* add() lines 73-78 in thread k: the append, the three stores, return True
AddUpdate(k) ==
  /\ adders[k].pc = "checked"
  /\ shared' = [buf |-> DequeAppend(shared.buf, adders[k].gesture),
                last_gesture |-> adders[k].gesture,
                age_gesture |-> 0, age_add |-> 0]
  /\ adders' = [adders EXCEPT ![k].pc = "done", ![k].ret = TRUE]
  /\ UNCHANGED <<active_agents, transcript_tasks, gesture_input_queues,
                 event_queues, GOOGLE_API_KEY, nextInc, taskCall, agentTask,
                 buffer, gq, proc, nextSub, sub, sq, lastObs, lastPush,
                 handoff, lastOut>>

\* the thread is free to call add() again
AddReturn(k) ==
  /\ adders[k].pc = "done"
  /\ adders' = [adders EXCEPT ![k] = NoAdd]
  /\ UNCHANGED <<active_agents, transcript_tasks, gesture_input_queues,
                 event_queues, GOOGLE_API_KEY, nextInc, taskCall, agentTask,
                 buffer, gq, proc, nextSub, sub, sq, lastObs, lastPush,
                 handoff, lastOut, shared>>

\* ---------------------------------------------------------- specifications
Next ==
  \/ \E c \in Calls : start_agent(c)
  \/ \E c \in Calls : stop_agent(c)
  \/ \E i \in Incs : agent_exit(i)
  \/ \E i \in Incs, g \in Labels, raw \in RawConfs : OnFrame(i, g, raw)
  \/ \E i \in Incs : ProcGet(i)
  \/ \E i \in Incs : ProcTimeout(i)
  \/ \E i \in Incs : ProcCancel(i)
  \/ \E i \in Incs, o \in Outcomes : InterpretDone(i, o)
  \/ \E c \in Calls : call_events(c)
  \/ \E s \in Subs : SubGet(s)
  \/ \E s \in Subs : SubPing(s)
  \/ \E s \in Subs : SubClose(s)
  \/ \E d \in CoarseSteps : Tick(d)
  \/ \E k \in Threads, g \in Labels : AddCheck(k, g)
  \/ \E k \in Threads : AddUpdate(k)
  \/ \E k \in Threads : AddReturn(k)

Spec == Init /\ [][Next]_vars

\* One session, started once and never stopped, observed with fine-grained time
NextTimed ==
  \/ \E c \in Calls : nextInc = 0 /\ start_agent(c)
  \/ \E i \in Incs, g \in Labels, raw \in RawConfs : OnFrame(i, g, raw)
  \/ \E i \in Incs : ProcGet(i)
  \/ \E i \in Incs : ProcTimeout(i)
  \/ \E i \in Incs, o \in Outcomes : InterpretDone(i, o)
  \/ \E d \in FineSteps : Tick(d)

SpecTimed == Init /\ [][NextTimed]_vars

\* The session lifecycle: restarts and stops of one call_id, one label, at
\* most LifeSubs subscribers, the clock moving one accumulator window at a time
NextLife ==
  \/ \E c \in Calls : start_agent(c)
  \/ \E c \in Calls : stop_agent(c)
  \/ \E i \in Incs : agent_exit(i)
  \/ \E i \in Incs : OnFrame(i, "A", Threshold)
  \/ \E i \in Incs : ProcGet(i)
  \/ \E i \in Incs : ProcTimeout(i)
  \/ \E i \in Incs : ProcCancel(i)
  \/ \E i \in Incs, o \in Outcomes : InterpretDone(i, o)
  \/ \E c \in Calls : nextSub < LifeSubs /\ call_events(c)
  \/ \E s \in Subs : SubGet(s)
  \/ \E s \in Subs : SubPing(s)
  \/ \E s \in Subs : SubClose(s)
  \/ \E d \in CoarseSteps : Tick(d)

SpecLife == Init /\ [][NextLife]_vars

\* One session and one subscriber, with the event loop's scheduling: a task
\* that is ready to run does run, the clock advances, the external call
\* replies; each subscriber's generator is a task of its own.  Requests and
\* client disconnects are under no obligation.
NextLive ==
  \/ \E c \in Calls : nextInc = 0 /\ start_agent(c)
  \/ \E c \in Calls : stop_agent(c)
  \/ \E i \in Incs : OnFrame(i, "A", Threshold)
  \/ \E i \in Incs : ProcGet(i)
  \/ \E i \in Incs : ProcTimeout(i)
  \/ \E i \in Incs : ProcCancel(i)
  \/ \E i \in Incs, o \in Outcomes : InterpretDone(i, o)
  \/ \E c \in Calls : nextSub < LifeSubs /\ call_events(c)
  \/ \E s \in Subs : SubGet(s)
  \/ \E s \in Subs : SubPing(s)
  \/ \E s \in Subs : SubClose(s)
  \/ \E d \in CoarseSteps : Tick(d)

SpecLive ==
  /\ Init /\ [][NextLive]_vars
  /\ WF_vars(\E i \in Incs : ProcGet(i))
  /\ WF_vars(\E i \in Incs : ProcTimeout(i))
  /\ WF_vars(\E i \in Incs : ProcCancel(i))
  /\ WF_vars(\E i \in Incs, o \in Outcomes : InterpretDone(i, o))
  /\ \A s \in Subs : WF_vars(SubGet(s)) /\ WF_vars(SubPing(s))
  /\ WF_vars(\E d \in CoarseSteps : Tick(d))

\* One session broadcasting to up to MaxSubs subscribers
NextCast ==
  \/ \E c \in Calls : nextInc = 0 /\ start_agent(c)
  \/ \E i \in Incs : OnFrame(i, "A", Threshold)
  \/ \E i \in Incs : ProcGet(i)
  \/ \E i \in Incs : ProcTimeout(i)
  \/ \E i \in Incs, o \in Outcomes : InterpretDone(i, o)
  \/ \E c \in Calls : nextSub < CastSubs /\ call_events(c)
  \/ \E s \in Subs : SubGet(s)
  \/ \E s \in Subs : SubPing(s)
  \/ \E s \in Subs : SubClose(s)
  \/ \E d \in CoarseSteps : Tick(d)

SpecCast == Init /\ [][NextCast]_vars

\* One session and up to MaxSubs subscribers that come, drain or not, and
\* go, within one instant: the clock does not move
NextIso ==
  \/ \E c \in Calls : nextInc = 0 /\ start_agent(c)
  \/ \E i \in Incs, raw \in IsoConfs : OnFrame(i, "A", raw)
  \/ \E c \in Calls : call_events(c)
  \/ \E s \in Subs : SubGet(s)
  \/ \E s \in Subs : SubClose(s)

SpecIso == Init /\ [][NextIso]_vars

\* One session that is started once and stopped, and up to MaxSubs subscribers
\* that come before or after the stop and go, within one instant
NextTeardown ==
  \/ \E c \in Calls : nextInc = 0 /\ start_agent(c)
  \/ \E c \in Calls : stop_agent(c)
  \/ \E i \in Incs, raw \in IsoConfs : OnFrame(i, "A", raw)
  \/ \E i \in Incs : ProcCancel(i)
  \/ \E c \in Calls : call_events(c)
  \/ \E s \in Subs : SubGet(s)
  \/ \E s \in Subs : SubClose(s)

SpecTeardown == Init /\ [][NextTeardown]_vars

\* One GestureBuffer, in any state add() can have left it in, and the threads
\* that call add() on it at one instant
RaceAges == {0, DebounceTicks - 1, DebounceTicks, ClockMax}
RaceBuffers ==
  {NewBuffer} \cup
  {[buf |-> h, last_gesture |-> h[Len(h)], age_gesture |-> a, age_add |-> a] :
     h \in {<<g>> : g \in Labels} \cup {<<g, f>> : g, f \in Labels},
     a \in RaceAges}

InitRace ==
  /\ active_agents = EmptyMap
  /\ transcript_tasks = EmptyMap
  /\ gesture_input_queues = EmptyMap
  /\ event_queues = EmptyMap
  /\ GOOGLE_API_KEY = FALSE
  /\ nextInc = 0
  /\ taskCall = [i \in Incs |-> None]
  /\ agentTask = [i \in Incs |-> "none"]
  /\ buffer = [i \in Incs |-> NewBuffer]
  /\ gq = [i \in Incs |-> <<>>]
  /\ proc = [i \in Incs |-> NoTask]
  /\ nextSub = 0
  /\ sub = [s \in Subs |-> NoSub]
  /\ sq = [s \in Subs |-> <<>>]
  /\ lastObs = NoObs
  /\ lastPush = [to |-> {}, full |-> {}]
  /\ handoff = [path |-> "none", live |-> FALSE]
  /\ lastOut = NoOut
  /\ shared \in RaceBuffers
  /\ adders = [k \in Threads |-> NoAdd]

NextRace ==
  \/ \E k \in Threads, g \in Labels : AddCheck(k, g)
  \/ \E k \in Threads : AddUpdate(k)
  \/ \E k \in Threads : AddReturn(k)

SpecRace == InitRace /\ [][NextRace]_vars

\* ---------------------------------------------------------------- claims
\* an at-or-above-threshold observation the debouncer rejects as a duplicate
Duplicate(i, g, raw) ==
  /\ raw >= Threshold
  /\ buffer[i].last_gesture = g
  /\ buffer[i].age_gesture < DebounceTicks

\* C1 as stated: every observation delivered to an active session publishes
\* exactly one GestureEvent, whether it is accepted, rejected or unclear.
C1_OneEventPerObservation ==
  [][\A i \in Incs, g \in Labels, raw \in RawConfs :
       (OnFrame(i, g, raw) /\ taskCall[i] \in DOMAIN event_queues)
         => lastObs'.pushes = 1]_vars

\* C1 amended: an observation delivered to an active session publishes exactly
\* one GestureEvent when it is accepted or unclear, and none when it is
\* rejected as a debounced duplicate.
C1_OneEventUnlessDuplicate ==
  [][\A i \in Incs, g \in Labels, raw \in RawConfs :
       (OnFrame(i, g, raw) /\ taskCall[i] \in DOMAIN event_queues)
         => lastObs'.pushes = (IF Duplicate(i, g, raw) THEN 0 ELSE 1)]_vars

\* C1 witness: a duplicate has just been rejected without an event
C1_RejectedSilently ==
  /\ lastObs.outcome = "rejected" /\ lastObs.pushes = 0
  /\ \E c \in DOMAIN active_agents : c \in DOMAIN event_queues

\* C2 as stated: an at-or-above-threshold observation that carries the label
\* of the observation before it and arrives less than debounceInterval after
\* it (so that it is not the first of its run) is never accepted.
C2_OnlyFirstOfRun ==
  [][\A i \in Incs, g \in Labels, raw \in RawConfs :
       (/\ OnFrame(i, g, raw)
        /\ raw >= Threshold
        /\ lastObs.label = g /\ lastObs.age < DebounceTicks)
         => buffer'[i] = buffer[i] /\ gq' = gq]_vars

\* C2 amended: an at-or-above-threshold observation is rejected (debouncer and
\* input queue untouched) exactly when it carries the label of the last
\* accepted token and arrives less than debounceInterval after that token
\* was accepted; time since a rejected observation does not count.
C2_DebounceFromLastAccepted ==
  [][\A i \in Incs, g \in Labels, raw \in RawConfs :
       (OnFrame(i, g, raw) /\ raw >= Threshold)
         => ((buffer'[i] = buffer[i] /\ gq' = gq) <=> Duplicate(i, g, raw))]_vars

\* C2 witness: the third observation of a run of one label, less than
\* debounceInterval after the rejected second one, has just been accepted
C2_ThirdOfRunAccepted ==
  /\ lastObs.outcome = "accepted" /\ lastObs.inrun
  /\ \E i \in Incs : /\ agentTask[i] = "running"
                      /\ buffer[i].last_gesture = lastObs.label
                      /\ buffer[i].age_gesture = 0

\* C3 as stated: a Phrase handed to the interpreter never holds, after its
\* first token, a token that was accepted more than silenceTimeout after the
\* token accepted before it.
C3_PhraseBoundaryBySilence ==
  [][\A i \in Incs :
       (ProcTimeout(i) /\ GOOGLE_API_KEY /\ proc[i].gestures # <<>>)
         => \A k \in 2..Len(proc[i].gestures) : ~proc[i].gestures[k].gap]_vars

\* the per-session entries of incarnation i are still in place
EntriesInPlace(i) ==
  /\ taskCall[i] \in DOMAIN gesture_input_queues
  /\ gesture_input_queues[taskCall[i]] = i
  /\ taskCall[i] \in DOMAIN event_queues

\* C4 as stated: when a stop finds tokens pending, their hand-off to the
\* interpreter happens while the session's subscriber list and input queue
\* are still in place.
C4_FlushBeforeTeardown ==
  [][\A i \in Incs :
       (ProcCancel(i) /\ proc[i].gestures # <<>>) => EntriesInPlace(i)]_vars

\* C5 as stated: a token queued for a live accumulator can be consumed by it
\* at once, whether or not an interpretation call is in flight.
C5_AccumulatorNotBlocked ==
  \A i \in Incs :
    (proc[i].pc \in {"wait", "interp"} /\ ~proc[i].cancel /\ gq[i] # <<>>)
      => ENABLED ProcGet(i)

\* C6 as stated: an observation that arrives more than silenceTimeout after
\* the last activity, the history being non-empty, clears the history and
\* the last label even when it is below the confidence threshold.
C6_ResetBeforeConfidence ==
  [][\A i \in Incs, g \in Labels, raw \in RawConfs :
       (OnFrame(i, g, raw) /\ SilenceExceeded(buffer[i]))
         => (raw < Threshold
               => buffer'[i].buf = <<>> /\ buffer'[i].last_gesture = None)]_vars

\* C6 amended: a below-threshold observation leaves the debouncer untouched,
\* however long the silence before it; the history is cleared by the next
\* at-or-above-threshold observation after the silence, which is accepted
\* and becomes the whole history.
C6_ResetAtNextClearObservation ==
  [][\A i \in Incs, g \in Labels, raw \in RawConfs :
       OnFrame(i, g, raw)
         => /\ raw < Threshold => buffer'[i] = buffer[i]
            /\ (raw >= Threshold /\ SilenceExceeded(buffer[i]))
                 => buffer'[i] = [buf |-> <<g>>, last_gesture |-> g,
                                  age_gesture |-> 0, age_add |-> 0]]_vars

\* C6 witness: an unclear observation has just arrived after a silence, and
\* the history is still there
C6_UnclearAfterSilence ==
  /\ lastObs.outcome = "unclear" /\ lastObs.silent
  /\ \E i \in Incs : agentTask[i] = "running" /\ SilenceExceeded(buffer[i])

\* subscriber s is still running, and its session has been stopped
Orphaned(s) ==
  sub[s].pc = "run" /\ s \notin Registered(sub[s].call)

\* C7 as stated: after stop_agent every subscriber that was registered for
\* the session eventually has its delivery loop terminated.
C7_EndOfStreamOnStop ==
  \A s \in Subs : Orphaned(s) ~> (sub[s].pc = "done")

\* stop_agent has returned for c and start_agent has not created tasks since
Stopped(c) ==
  /\ \E i \in Incs : taskCall[i] = c
  /\ c \notin DOMAIN active_agents

\* C8 as stated: between a stop and the next start of a session ID, none of
\* the four registries has an entry for it.
C8_NoLeakedEntries ==
  \A c \in Calls :
    Stopped(c) => /\ c \notin DOMAIN active_agents
                  /\ c \notin DOMAIN transcript_tasks
                  /\ c \notin DOMAIN gesture_input_queues
                  /\ c \notin DOMAIN event_queues

\* C9 as stated: the interpretation of the tokens a stopped incarnation
\* flushed enqueues nothing to any subscriber.
C9_StoppedResultsDiscarded ==
  [][\A i \in Incs, o \in Outcomes :
       (InterpretDone(i, o) /\ proc[i].pc = "flush") => sq' = sq]_vars

\* what _push_event(c, ev) must leave in the subscriber queues
Delivered(c, ev) ==
  \A s \in Subs :
    sq'[s] = IF s \in Registered(c) /\ Len(sq[s]) < SubQueueMax
             THEN Append(sq[s], ev) ELSE sq[s]

\* C10: every publish appends the event to the queue of each registered
\* subscriber that is not full and leaves every full queue (and every queue
\* of another or of no session) unchanged; the publishing step is always
\* possible, whatever the queues hold.
C10_SlowConsumerIsolation ==
  [][/\ \A i \in Incs, g \in Labels, raw \in RawConfs :
          (/\ OnFrame(i, g, raw)
           /\ taskCall[i] \in DOMAIN event_queues
           /\ ~Duplicate(i, g, raw))
            => Delivered(taskCall[i],
                         GestureEvent(IF raw < Threshold THEN UNCLEAR ELSE g,
                                      Round3(raw)))
     /\ \A i \in Incs :
          InterpretDone(i, "ok") => Delivered(taskCall[i], TranscriptEvent)]_vars

\* C10 witness: a publish has just found one subscriber's queue full and
\* another's not, and the latter holds the event
C10_OneFullOneServed ==
  /\ lastPush.full # {}
  /\ \E s \in lastPush.to \ lastPush.full : sq[s] # <<>>
  /\ \A s \in lastPush.full : Len(sq[s]) = SubQueueMax

\* C11: removing a subscriber touches no other subscriber: their queues are
\* as they were and they stay listed, in the same order; and a publish made
\* after a removal still reaches every remaining subscriber, each according
\* to its own queue only (appended unless that queue is full).
C11_UnsubscribeIsolation ==
  [][/\ \A s \in Subs :
          SubClose(s) =>
            LET c == sub[s].call
                listed == IF c \in DOMAIN event_queues THEN event_queues[c]
                          ELSE <<>>
            IN  /\ \A t \in Subs \ {s} : sq'[t] = sq[t] /\ sub'[t] = sub[t]
                /\ c \in DOMAIN event_queues
                     => event_queues'[c] = SelectSeq(listed, LAMBDA t : t # s)
     /\ \A i \in Incs, g \in Labels, raw \in RawConfs :
          (/\ OnFrame(i, g, raw)
           /\ \E s \in Subs : sub[s].pc = "done"
           /\ taskCall[i] \in DOMAIN event_queues
           /\ ~Duplicate(i, g, raw))
            => \A t \in Subs :
                 (sub[t].pc = "run" /\ sub[t].call = taskCall[i])
                   => sq'[t] = IF Len(sq[t]) < SubQueueMax
                               THEN Append(sq[t], GestureEvent(
                                      IF raw < Threshold THEN UNCLEAR ELSE g,
                                      Round3(raw)))
                               ELSE sq[t]]_vars

\* C11 witness: of three subscribers the first has left, and the publish
\* after that found the two others listed, one with its queue full (it never
\* drains), the other served
C11_RemovedOneOfThree ==
  /\ sub[1].pc = "done"
  /\ lastPush.to = {2, 3}
  /\ Cardinality(lastPush.full) = 1
  /\ \E t \in lastPush.to \ lastPush.full : sq[t] # <<>>

\* the tokens of incarnation i on their way to the interpreter, oldest first:
\* the accumulator's pending list, then its input queue
Stream(i) == proc[i].gestures \o gq[i]

\* the token _on_frame forwards when it accepts label g
Token(i, g) == [g |-> g, gap |-> SilenceExceeded(buffer[i])]

C13_DebounceInvariant ==
  [][\A i \in Incs, g \in Labels, raw \in RawConfs :
       (OnFrame(i, g, raw) /\ raw >= Threshold)
         => /\ (/\ buffer'[i] # buffer[i]
                /\ buffer[i].buf # <<>>
                /\ buffer[i].buf[Len(buffer[i].buf)] = g)
                 => buffer[i].age_add >= DebounceTicks
            /\ Duplicate(i, g, raw)
                 => buffer'[i] = buffer[i] /\ gq' = gq]_vars

\* C13 witness: the history holds the same label twice in a row, the second
\* just accepted within the same phrase
C13_SameLabelTwice ==
  /\ lastObs.outcome = "accepted" /\ ~lastObs.silent
  /\ \E i \in Incs : /\ agentTask[i] = "running"
                      /\ buffer[i].buf = <<lastObs.label, lastObs.label>>
                      /\ buffer[i].age_add = 0

\* C14: an observation changes the debouncer or the input queue only if its
\* confidence is at least the threshold; and one whose confidence equals the
\* threshold is not unclear: unless it is a debounced duplicate it becomes
\* the newest token of the history and is forwarded to the input queue.
C14_AcceptanceThreshold ==
  [][\A i \in Incs, g \in Labels, raw \in RawConfs :
       OnFrame(i, g, raw)
         => /\ (buffer'[i] # buffer[i] \/ gq' # gq) => raw >= Threshold
            /\ raw = Threshold
                 => /\ lastObs'.outcome # "unclear"
                    /\ ~Duplicate(i, g, raw)
                         => /\ buffer'[i].buf # <<>>
                            /\ buffer'[i].buf[Len(buffer'[i].buf)] = g
                            /\ buffer'[i].age_add = 0
                            /\ Len(gq[i]) < GestureQueueMax
                                 => gq'[i] = Append(gq[i], Token(i, g))]_vars

\* C14 witness: an observation with exactly the threshold confidence has just
\* been accepted and its token is in the input queue
C14_ExactThresholdAccepted ==
  /\ lastObs.raw = Threshold /\ lastObs.outcome = "accepted"
  /\ \E i \in Incs : /\ agentTask[i] = "running"
                      /\ gq[i] # <<>>
                      /\ gq[i][Len(gq[i])].g = lastObs.label
                      /\ buffer[i].last_gesture = lastObs.label

\* what an observation below the threshold must leave untouched
NoTokenEffect == buffer' = buffer /\ gq' = gq /\ proc' = proc

\* conf is raw (both in 1e-4) rounded to three decimals
IsRounded3(conf, raw) == conf % 10 = 0 /\ conf - raw \in -4..5

\* C15 as stated: an observation below the threshold publishes a GestureEvent
\* with the unclear label and the observation's confidence, and changes
\* neither the debouncer, nor the input queue, nor the pending list.
C15_UnclearCarriesConfidence ==
  [][\A i \in Incs, g \in Labels, raw \in RawConfs :
       (/\ OnFrame(i, g, raw) /\ raw < Threshold
        /\ taskCall[i] \in DOMAIN event_queues)
         => /\ Delivered(taskCall[i], GestureEvent(UNCLEAR, raw))
            /\ NoTokenEffect]_vars

\* C15 amended: an observation below the threshold publishes a GestureEvent
\* with the unclear label and the observation's confidence rounded to three
\* decimals, and changes neither the debouncer, nor the input queue, nor the
\* pending list.
C15_UnclearCarriesRounded ==
  [][\A i \in Incs, g \in Labels, raw \in RawConfs :
       (/\ OnFrame(i, g, raw) /\ raw < Threshold
        /\ taskCall[i] \in DOMAIN event_queues)
         => /\ \E conf \in {raw - (raw % 10), raw - (raw % 10) + 10} :
                 /\ IsRounded3(conf, raw)
                 /\ Delivered(taskCall[i], GestureEvent(UNCLEAR, conf))
            /\ NoTokenEffect]_vars

\* C15 witness: a subscriber has just been sent the unclear event of an
\* observation whose confidence has more than three decimals
C15_UnclearRoundedSent ==
  /\ lastObs.outcome = "unclear"
  /\ Round3(lastObs.raw) # lastObs.raw
  /\ \E s \in lastPush.to \ lastPush.full :
       /\ sq[s] # <<>>
       /\ sq[s][Len(sq[s])] = GestureEvent(UNCLEAR, Round3(lastObs.raw))

\* C16: an observation with confidence at or above the threshold, processed
\* more than silenceTimeout after the last accepted one while the history is
\* non-empty, is accepted whatever its label, with one event and its token
\* forwarded, and afterwards it is the whole history and the last label.
C16_SilenceReset ==
  [][\A i \in Incs, g \in Labels, raw \in RawConfs :
       (/\ OnFrame(i, g, raw) /\ raw >= Threshold
        /\ buffer[i].age_add > SilenceTicks /\ buffer[i].buf # <<>>)
         => /\ buffer'[i].buf = <<g>>
            /\ buffer'[i].last_gesture = g
            /\ buffer'[i].age_gesture = 0 /\ buffer'[i].age_add = 0
            /\ lastObs'.outcome = "accepted" /\ lastObs'.pushes = 1
            /\ Len(gq[i]) < GestureQueueMax
                 => gq'[i] = Append(gq[i], [g |-> g, gap |-> TRUE])]_vars

\* C16 witness: a label has just been accepted again after a silence; its
\* token follows one of the same label, and it alone is in the history
C16_SameLabelAfterSilence ==
  /\ lastObs.outcome = "accepted" /\ lastObs.silent
  /\ \E i \in Incs :
       /\ agentTask[i] = "running"
       /\ buffer[i].buf = <<lastObs.label>>
       /\ Len(Stream(i)) >= 2
       /\ LET n == Len(Stream(i))
          IN  /\ Stream(i)[n] = [g |-> lastObs.label, gap |-> TRUE]
              /\ Stream(i)[n - 1].g = lastObs.label

\* C17: a silence timeout or a stop that finds no pending token calls the
\* interpreter with nothing and publishes nothing, the task going on waiting
\* or ending; every interpretation in flight has at least one token; and
\* every call of the interpreter comes from a timeout or a stop that found
\* pending tokens.
C17_NeverEmptyPhrase ==
  [][/\ \A i \in Incs :
          /\ ((ProcTimeout(i) \/ ProcCancel(i)) /\ proc[i].gestures = <<>>)
               => /\ handoff' = handoff /\ sq' = sq
                  /\ proc'[i].pc \in {"wait", "done"}
          /\ proc'[i].pc \in {"interp", "flush"} => proc'[i].gestures # <<>>
     /\ handoff' # handoff
          => \E i \in Incs : /\ proc[i].gestures # <<>>
                             /\ ProcTimeout(i) \/ ProcCancel(i)]_vars

\* C17 witness: a session was stopped with nothing pending and its
\* accumulator has ended without any call of the interpreter
C17_StoppedWithNothingPending ==
  /\ handoff.path = "none"
  /\ \E i \in Incs : proc[i].pc = "done" /\ agentTask[i] = "cancelled"

\* C18: the return of an interpretation call ends its Phrase (the pending
\* list is emptied, the task waits again or ends) and enqueues at most one
\* event per subscriber; a TranscriptEvent is enqueued only by the return of
\* a call that succeeded; and a call interrupted by a stop publishes
\* nothing, its Phrase being handed over once more by the cancel handler.
C18_OneTranscriptPerPhrase ==
  [][/\ \A i \in Incs, o \in Outcomes :
          InterpretDone(i, o)
            => /\ proc[i].gestures # <<>> /\ proc'[i].gestures = <<>>
               /\ proc'[i].pc \in {"wait", "done"}
               /\ \A s \in Subs : Len(sq'[s]) <= Len(sq[s]) + 1
     /\ \A s \in Subs :
          (/\ Len(sq'[s]) > Len(sq[s])
           /\ sq'[s][Len(sq'[s])].type = "transcript")
            => \E i \in Incs : /\ proc[i].pc \in {"interp", "flush"}
                               /\ InterpretDone(i, "ok")
     /\ \A i \in Incs :
          (ProcCancel(i) /\ proc[i].pc = "interp")
            => sq' = sq /\ proc'[i].gestures = proc[i].gestures]_vars

\* C18 witness: a stop interrupted an interpretation, the Phrase was handed
\* over again and that call has returned; a subscriber holds the one
\* TranscriptEvent
C18_OneTranscriptAfterStopInFlight ==
  /\ handoff.path = "resubmit"
  /\ \E i \in Incs : proc[i].pc = "done"
  /\ \E s \in Subs : sq[s] = <<TranscriptEvent>>

\* the accumulator with nothing pending and a full window ahead
Idle == [pc |-> "wait", gestures |-> <<>>, timer |-> WindowTicks,
         cancel |-> FALSE]

\* C19: each token taken from the queue is appended to the pending list and
\* restarts the full window; the window runs down with the clock and is
\* never overrun; when it expires with tokens pending, the whole pending
\* list is handed to the interpreter in one call, and when that call
\* returns the accumulator is idle again with an empty pending list.
C19_FlushOnSilence ==
  [][\A i \in Incs :
       /\ ProcGet(i)
            => /\ proc'[i].gestures = Append(proc[i].gestures, Head(gq[i]))
               /\ proc'[i].timer = WindowTicks
       /\ \A d \in FineSteps :
            (Tick(d) /\ proc[i].pc = "wait")
              => proc'[i].timer = proc[i].timer - d /\ proc'[i].timer >= 0
       /\ (ProcTimeout(i) /\ proc[i].gestures # <<>>)
            => /\ proc[i].timer = 0 /\ gq[i] = <<>>
               /\ handoff'.path = "timeout"
               /\ IF GOOGLE_API_KEY
                  THEN /\ proc'[i].pc = "interp"
                       /\ proc'[i].gestures = proc[i].gestures
                  ELSE proc'[i] = Idle
       /\ (proc[i].pc = "interp" /\ \E o \in Outcomes : InterpretDone(i, o))
            => proc'[i] = Idle]_vars

\* C19 witness: a Phrase was handed over on a timeout, its call has returned
\* and the accumulator is idle again
C19_IdleAfterFlush ==
  /\ GOOGLE_API_KEY /\ handoff.path = "timeout"
  /\ \E i \in Incs : proc[i] = Idle /\ gq[i] = <<>> /\ agentTask[i] = "running"

\* C20: an interpretation that fails (no credentials, an exception, an empty
\* reply) returns to the accumulator, which goes on as after a success:
\* idle with a full window after a timeout flush, ended after a stop flush;
\* and it enqueues nothing to any subscriber.
C20_FailureIsolation ==
  [][\A i \in Incs :
       /\ \A o \in {"empty", "error"} :
            InterpretDone(i, o)
              => /\ sq' = sq
                 /\ proc[i].pc = "interp" => proc'[i] = Idle
                 /\ proc[i].pc = "flush" => proc'[i].pc = "done"
       /\ ((ProcTimeout(i) \/ ProcCancel(i))
            /\ proc[i].gestures # <<>> /\ ~GOOGLE_API_KEY)
            => /\ sq' = sq
               /\ proc[i].cancel => proc'[i].pc = "done"
               /\ ~proc[i].cancel => proc'[i] = Idle]_vars

\* C20 witness: without credentials a Phrase was handed over on a timeout,
\* and the accumulator is collecting the next one for a subscriber who has
\* received no transcript
C20_RunningAfterFailure ==
  /\ ~GOOGLE_API_KEY /\ handoff.path = "timeout"
  /\ \E i \in Incs : proc[i].pc = "wait" /\ proc[i].gestures # <<>>
  /\ \E s \in Subs : /\ sub[s].pc = "run" /\ s \in Registered(sub[s].call)
                      /\ \A k \in 1..Len(sq[s]) : sq[s][k].type = "gesture"

\* ---------------------------------------------------------------- C21
\* queue s gained exactly one item, at its tail
Grew(s) ==
  /\ Len(sq'[s]) = Len(sq[s]) + 1
  /\ SubSeq(sq'[s], 1, Len(sq[s])) = sq[s]

\* C21: what a subscriber dequeues is a subsequence of what was published, in
\* publish order.  Every step leaves a subscriber queue as it was, or adds one
\* item at its tail, or removes its head (the dequeue), or empties it as the
\* generator is created or closed; the item added is the event of the
\* observation or interpretation just handled, the same for every queue that
\* gains one: nothing is inserted ahead of an older event, moved or repeated.
C21_DeliveryOrder ==
  [][/\ \A s \in Subs :
          \/ sq'[s] = sq[s]
          \/ /\ Grew(s)
             /\ s \in lastPush'.to \ lastPush'.full
             /\ LET ev == sq'[s][Len(sq'[s])]
                IN  \/ ev = TranscriptEvent
                    \/ /\ ev.type = "gesture"
                       /\ ev.gesture = lastObs'.label /\ lastObs'.age = 0
          \/ sq[s] # <<>> /\ sq'[s] = Tail(sq[s]) /\ sub[s].pc = "run"
          \/ sq'[s] = <<>> /\ sub'[s].pc # sub[s].pc
     /\ \A s, t \in Subs :
          Grew(s) /\ Grew(t) => sq'[s][Len(sq'[s])] = sq'[t][Len(sq'[t])]
     /\ \A s \in Subs : SubGet(s) => sq'[s] = Tail(sq[s])]_vars

\* witness: the event of label A was dropped for the full queue of s and put
\* behind the older event in the queue of t
C21_DroppedNotReordered ==
  \E s, t \in Subs :
    /\ s # t /\ sub[s].pc = "run" /\ sub[t].pc = "run"
    /\ lastObs.label = "A" /\ lastObs.outcome = "accepted"
    /\ s \in lastPush.full /\ t \in lastPush.to \ lastPush.full
    /\ sq[s] = <<GestureEvent(UNCLEAR, Threshold), GestureEvent(UNCLEAR, Threshold)>>
    /\ sq[t] = <<GestureEvent(UNCLEAR, Threshold), GestureEvent("A", Threshold)>>

\* ---------------------------------------------------------------- C22
\* C22: bounded memory.  In every reachable state no subscriber queue holds
\* more than its capacity and no accumulator input queue holds more than its
\* capacity.
C22_BoundedQueues ==
  /\ \A s \in Subs : Len(sq[s]) <= SubQueueMax
  /\ \A i \in Incs : Len(gq[i]) <= GestureQueueMax

\* witness: a publish found a subscriber queue full, which still holds its
\* capacity, while the input queue is at its capacity with the accumulator
\* busy in an interpretation
C22_BothAtCapacity ==
  \E s \in Subs, i \in Incs :
    /\ s \in lastPush.full /\ Len(sq[s]) = SubQueueMax
    /\ lastObs.outcome = "accepted"
    /\ Len(gq[i]) = GestureQueueMax /\ proc[i].pc = "interp"

\* ---------------------------------------------------------------- C23
\* C23: stop_agent on a call_id without a running session (never started, or
\* already stopped) is answered with not-found and changes no registry, no
\* task, no queue and no subscriber.
C23_UnknownStopNotFound ==
  [][\A c \in Calls :
       stop_agent(c) /\ c \notin DOMAIN active_agents =>
         /\ lastOut'.what = "not_found"
         /\ state' = state]_vars

\* witness: a second stop_agent was answered not-found after the first had
\* cancelled the session's tasks, and the subscriber that registered in
\* between is still listed
C23_SecondStopNotFound ==
  /\ lastOut.what = "not_found"
  /\ \E i \in Incs : agentTask[i] = "cancelled"
  /\ \E s \in Subs : sub[s].pc = "run" /\ s \in Registered(sub[s].call)

\* ---------------------------------------------------------------- C24
\* C24 as stated: GestureBuffer is thread-safe.  Of two calls of add() with
\* the same label that run on one buffer at one instant, at most one returns
\* True (and so at most one appends to the history).
C24_AtMostOneAccepted ==
  \A k, l \in Threads :
    /\ k # l
    /\ adders[k].pc = "done" /\ adders[l].pc = "done"
    /\ adders[k].gesture = adders[l].gesture
    => ~(adders[k].ret /\ adders[l].ret)

\* ---------------------------------------------------------------- C25
\* C25: each iteration of a subscriber's delivery loop yields the head of its
\* queue when an event is there before the keepalive interval has passed, and
\* otherwise exactly one ping.  A ping is yielded only with the queue empty
\* and the interval elapsed, starts the next interval, and touches no queue;
\* no queue ever holds a ping; a dequeue takes the head and starts the next
\* interval; and an iteration in which time has passed does yield.
C25_KeepaliveOutsideQueue ==
  /\ [][\A s \in Subs :
          /\ SubPing(s) =>
               /\ sq[s] = <<>> /\ sub[s].timer = 0
               /\ sq' = sq /\ event_queues' = event_queues
               /\ sub'[s].timer = KeepaliveTicks
          /\ SubGet(s) =>
               /\ sq[s] # <<>> /\ sq'[s] = Tail(sq[s])
               /\ sub'[s].timer = KeepaliveTicks
          /\ lastOut'.what = "ping" /\ lastOut'.sub = s /\ lastOut' # lastOut =>
               sq[s] = <<>> /\ sub[s].timer = 0 /\ sq' = sq]_vars
  /\ [](\A s \in Subs : \A k \in 1..Len(sq[s]) : sq[s][k].type # "ping")
  /\ \A s \in Subs :
       (sub[s].pc = "run" /\ sub[s].timer < KeepaliveTicks)
         ~> (sub[s].pc # "run" \/ sub[s].timer = KeepaliveTicks)

\* witness: a ping was yielded to s and the event published next, at the
\* same instant, found room in the queue of s
C25_EventAfterPing ==
  /\ lastOut.what = "ping"
  /\ sub[lastOut.sub].pc = "run"
  /\ sub[lastOut.sub].timer = KeepaliveTicks
  /\ lastOut.sub \in lastPush.to \ lastPush.full
  /\ lastObs.outcome = "accepted" /\ lastObs.age = 0
  /\ sq[lastOut.sub] = <<GestureEvent("A", Threshold)>>

\* ---------------------------------------------------------------- C26
\* C26: unsubscribing is safe after teardown.  When a generator closes whose
\* queue is no longer listed (stop_agent deleted the session's list, with or
\* without a later subscriber having created a new one), the removal raises
\* nothing and changes nothing: the registry stays as it is, and every other
\* subscriber keeps its listing, its queue and its generator.
C26_UnsubscribeAfterTeardown ==
  [][\A s \in Subs :
       SubClose(s) /\ s \notin Registered(sub[s].call) =>
         /\ sub'[s].pc = "done"
         /\ event_queues' = event_queues
         /\ \A t \in Subs \ {s} : sub'[t] = sub[t] /\ sq'[t] = sq[t]]_vars

\* witness: the generator of s closed with its queue unlisted while another
\* subscriber, which registered after the stop, is listed and still is
C26_UnlistedClosedOtherListed ==
  /\ lastOut.what = "unlisted"
  /\ sub[lastOut.sub].pc = "done"
  /\ \E t \in Subs \ {lastOut.sub} :
       /\ sub[t].pc = "run" /\ sub[t].call = sub[lastOut.sub].call
       /\ t \in Registered(sub[t].call)

\* ---------------------------------------------------------------- C27
\* _on_frame handles a confident observation that the debouncer accepts
AcceptedFrame(i, g, raw) ==
  /\ OnFrame(i, g, raw)
  /\ raw >= Threshold /\ ~Duplicate(i, g, raw)
  /\ taskCall[i] \in DOMAIN event_queues
  /\ taskCall[i] \in DOMAIN gesture_input_queues
  /\ gesture_input_queues[taskCall[i]] = i

C28_QueuedTokensReachPhrase ==
  [][\A i \in Incs :
       Len(gq'[i]) < Len(gq[i]) =>
         /\ gq'[i] = Tail(gq[i])
         /\ proc'[i].gestures = Append(proc[i].gestures, Head(gq[i]))]_vars

\* ---------------------------------------------------------------- C29
\* C29 as stated: each closed Phrase is submitted to the interpretation
\* service at most once.  No _interpret_and_emit call is made by the cancel
\* handler with the pending list that the interrupted, timeout-triggered call
\* was already given.
C29_PhraseSubmittedOnce ==
  handoff.path # "resubmit"

\* ---------------------------------------------------------------- C30
\* C30 as stated: one live task set per call_id.  Every agent task that is
\* running, and every accumulator task that is running with no cancellation
\* requested, is the task recorded for its call_id in active_agents or in
\* transcript_tasks.
C30_LiveTasksRegistered ==
  \A i \in Incs :
    /\ agentTask[i] = "running" =>
         /\ taskCall[i] \in DOMAIN active_agents
         /\ active_agents[taskCall[i]] = i
    /\ proc[i].pc \in {"wait", "interp"} /\ ~proc[i].cancel =>
         /\ taskCall[i] \in DOMAIN transcript_tasks
         /\ transcript_tasks[taskCall[i]] = i

\* ---------------------------------------------------------------- C31
\* C31: a subscriber that registered for a call_id before start_agent ran for
\* it stays registered across the start: the start leaves the subscriber list
\* of the call, every generator and every subscriber queue as they were; and
\* every event published for the session afterwards is appended to the queue
\* of each listed subscriber whose queue is not full.
C31_SubscribeBeforeStartKept ==
  [][/\ \A c \in Calls :
          start_agent(c) /\ c \in DOMAIN event_queues =>
            /\ event_queues'[c] = event_queues[c]
            /\ sub' = sub /\ sq' = sq
     /\ \A i \in Incs, raw \in IsoConfs :
          OnFrame(i, "A", raw) /\ lastObs'.pushes = 1 =>
            \A s \in Registered(taskCall[i]) :
              /\ Len(sq[s]) < SubQueueMax
              => /\ Len(sq'[s]) = Len(sq[s]) + 1
                 /\ sq'[s][Len(sq'[s])].gesture = lastObs'.label]_vars

\* witness: the subscriber that start_agent found listed is still listed and
\* holds the event of the label accepted since
C31_EarlySubscriberServed ==
  /\ lastOut.what = "kept"
  /\ sub[lastOut.sub].pc = "run"
  /\ lastOut.sub \in Registered(sub[lastOut.sub].call)
  /\ lastOut.sub \in lastPush.to \ lastPush.full
  /\ lastObs.outcome = "accepted"
  /\ sq[lastOut.sub] # <<>>
  /\ sq[lastOut.sub][Len(sq[lastOut.sub])] = GestureEvent("A", Threshold)

====
